---- MODULE Spec2Model ----
(***************************************************************************)
(* Model of step2_build_index.py: process_batch (the worker body) and      *)
(* build_index_fast (folder selection, image scan, chunking, the process   *)
(* pool read through pool.imap, and the two np.save calls), run from the   *)
(* __main__ guard that catches KeyboardInterrupt.                          *)
(*                                                                         *)
(* An image path "<folder>/<name>.<ext>" is the pair <<folder, id>>; the   *)
(* file names are taken zero padded, so that the string order sorted()     *)
(* uses is the order of the ids.                                           *)
(***************************************************************************)
EXTENDS Integers, Sequences, FiniteSets, TLC

\* ---------------------------------------------------------------- bounds
MaxImgs == 250
MaxLen == 320
MaxRuns == 2

\* ------------------------------------------------------ program constants
batch_size == 100
num_processes == 4
MinFileSize == 1024

Folders == {"gallery", "demo_data"}
WeightStates == {"absent", "ok", "corrupt"}
GlobOrders == {"asc", "desc"}

\* ------------------------------------------------------------ environment
\* What a file on disk does to the three calls of the loop body.
FileSize(kind) ==
  CASE kind = "ok" -> 51200
    [] kind = "edge" -> 1024
    [] kind = "under" -> 1023
    [] kind = "stub" -> 500
    [] kind = "unreadable" -> 51200
    [] kind = "inferfail" -> 51200
    [] OTHER -> 0

StatFails(kind) == kind = "nostat"
DecodeFails(kind) == kind = "unreadable"
InferFails(kind) == kind = "inferfail"

\* A folder's content is a pattern of file kinds repeated over the ids.
BlockPattern ==
  [i \in 1..(2 * batch_size) |-> IF i <= batch_size THEN "ok" ELSE "stub"]

Patterns ==
  << <<"ok">>,
     <<"ok", "stub">>,
     <<"edge", "under">>,
     <<"ok", "nostat", "unreadable", "inferfail">>,
     <<"stub">>,
     <<"unreadable", "under">>,
     BlockPattern >>

ImgCounts == {0, 2, batch_size + 1, MaxImgs}

VARIABLES
  folders,          \* which of 'gallery', 'demo_data' exist
  weight,           \* state of vit-dinov2-base.npz
  nImgs,            \* number of image files in each existing folder
  patId,            \* index in Patterns of the folders' content
  run,              \* number of the current invocation
  pc,               \* position of the main process
  outcome,          \* which message the run ended with
  target_folder,
  all_paths,
  total_imgs,
  chunks,
  nTaken,           \* tasks the pool's workers have taken, in submission order
  running,          \* chunks a worker is processing
  results,          \* finished chunks whose result imap has not yielded yet
  nCollected,       \* results the for loop has consumed
  all_features,
  valid_paths,
  final_features,
  final_paths,
  index_features,   \* the file index_features.npy
  index_paths,      \* the file index_paths.npy
  completionOrder,  \* history: chunk numbers in the order workers finished
  collectOrder,     \* history: chunk numbers in the order the loop got them
  startFeatures,    \* history: the two files when this run started
  startPaths,
  prevEnd,          \* history: how the previous run ended
  prevOutcome,
  sameInputs        \* history: the inputs are those of the previous run

envVars == <<folders, weight, nImgs, patId>>
mainVars == <<pc, outcome, target_folder, all_paths, total_imgs, chunks,
              nCollected, all_features, valid_paths, final_features, final_paths>>
poolVars == <<nTaken, running, results>>
fileVars == <<index_features, index_paths>>
histVars == <<completionOrder, collectOrder, startFeatures, startPaths,
              prevEnd, prevOutcome, sameInputs>>
vars == <<envVars, run, mainVars, poolVars, fileVars, histVars>>

KindOf(path) ==
  LET pat == Patterns[patId]
  IN pat[((path[2] - 1) % Len(pat)) + 1]

\* --------------------------------------------------------------- helpers
Min(a, b) == IF a < b THEN a ELSE b

Reverse(seq) == [k \in 1..Len(seq) |-> seq[Len(seq) + 1 - k]]

\* The arrays lo..hi of a list, one after the other. The range is halved so
\* that the evaluation stays shallow; the order is that of the list.
RECURSIVE ConcatRange(_, _, _)
ConcatRange(arrays, lo, hi) ==
  IF lo > hi THEN <<>>
  ELSE IF lo = hi THEN arrays[lo]
  ELSE LET mid == (lo + hi) \div 2
       IN ConcatRange(arrays, lo, mid) \o ConcatRange(arrays, mid + 1, hi)

\* ------------------------------------------------- external collaborators
\* os.path.getsize(path): the size in bytes, or an OSError.
GetSize(path) ==
  [raised |-> StatFails(KindOf(path)), value |-> FileSize(KindOf(path))]

\* resize_short_side(path): the model's input tensor, or an exception on a
\* file that does not decode.
ResizeShortSide(path) ==
  [raised |-> DecodeFails(KindOf(path)), value |-> <<"tensor", path>>]

\* vit(input_tensor): an array of one row, the embedding of the image, which
\* depends on the image alone; or an exception.
Embedding(path) == path[2] * 7 + (IF path[1] = "gallery" THEN 1 ELSE 2)

Vit(input_tensor) ==
  [raised |-> InferFails(KindOf(input_tensor[2])),
   value |-> << Embedding(input_tensor[2]) >>]

\* --------------------------------------------------------- process_batch
IsTooSmallOffByOne(size) == size < MinFileSize - 1

\* line 28: os.path.getsize(path) < 1024
IsTooSmall(size) == size < MinFileSize

\* The try body with the path recorded before inference has succeeded.
TryBodyPathFirst(path, batch_features, batch_paths) ==
  LET kept == [raised |-> FALSE, features |-> batch_features, paths |-> batch_paths]
      size == GetSize(path)
      tensor == ResizeShortSide(path)
      feature == Vit(tensor.value)
  IN IF size.raised THEN [kept EXCEPT !.raised = TRUE]
     ELSE IF IsTooSmall(size.value) THEN kept
     ELSE IF tensor.raised THEN [kept EXCEPT !.raised = TRUE]
     ELSE IF feature.raised
       THEN [raised |-> TRUE, features |-> batch_features,
             paths |-> Append(batch_paths, path)]
     ELSE [raised |-> FALSE,
           features |-> Append(batch_features, feature.value),
           paths |-> Append(batch_paths, path)]

\* lines 26-39: the try body for one path. raised: an exception left the
\* body; the two lists are as the body left them.
TryBody(path, batch_features, batch_paths) ==
  LET kept == [raised |-> FALSE, features |-> batch_features, paths |-> batch_paths]
      size == GetSize(path)
      tensor == ResizeShortSide(path)
      feature == Vit(tensor.value)
  IN IF size.raised THEN [kept EXCEPT !.raised = TRUE]
     ELSE IF IsTooSmall(size.value) THEN kept
     ELSE IF tensor.raised THEN [kept EXCEPT !.raised = TRUE]
     ELSE IF feature.raised THEN [kept EXCEPT !.raised = TRUE]
     ELSE [raised |-> FALSE,
           features |-> Append(batch_features, feature.value),
           paths |-> Append(batch_paths, path)]

\* No handler: the exception leaves process_batch.
OnExceptionPropagate(batch_features, batch_paths) ==
  [raised |-> TRUE, features |-> <<>>, paths |-> <<>>]

\* lines 40-42: except: continue. The loop goes on with the two lists as the
\* try body left them.
OnException(batch_features, batch_paths) ==
  [raised |-> FALSE, features |-> batch_features, paths |-> batch_paths]

\* lines 25-42: one iteration of the for loop. st.raised: an exception has
\* left the loop, which then runs no further iteration.
Iteration(path, st) ==
  IF st.raised THEN st
  ELSE LET r == TryBody(path, st.features, st.paths)
       IN IF r.raised THEN OnException(r.features, r.paths) ELSE r

\* lines 25-42: the iterations for image_paths[lo..hi], in order. The range
\* is halved so that the evaluation stays shallow: the left half runs first
\* and hands its lists to the right half.
RECURSIVE ForLoop(_, _, _, _)
ForLoop(image_paths, lo, hi, st) ==
  IF lo > hi THEN st
  ELSE IF lo = hi THEN Iteration(image_paths[lo], st)
  ELSE LET mid == (lo + hi) \div 2
           left == ForLoop(image_paths, lo, mid, st)
       IN IF left.raised THEN left ELSE ForLoop(image_paths, mid + 1, hi, left)

\* lines 22-44: the two empty lists, the loop, the return.
BatchLoop(image_paths) ==
  ForLoop(image_paths, 1, Len(image_paths),
          [raised |-> FALSE, features |-> <<>>, paths |-> <<>>])

\* process_batch without the check that the weight file exists.
process_batch_unguarded(image_paths) ==
  IF weight = "corrupt"
    THEN [raised |-> TRUE, features |-> <<>>, paths |-> <<>>]
    ELSE BatchLoop(image_paths)

\* lines 12-44. raised: np.load or Dinov2Numpy raised on the weight file,
\* outside the try, so the call raises.
process_batch(image_paths) ==
  IF weight = "absent"
    THEN [raised |-> FALSE, features |-> <<>>, paths |-> <<>>]
    ELSE IF weight = "corrupt"
      THEN [raised |-> TRUE, features |-> <<>>, paths |-> <<>>]
      ELSE BatchLoop(image_paths)

\* ------------------------------------------------------ build_index_fast
SelectTargetDemoFirst(existing) ==
  IF "demo_data" \in existing THEN "demo_data"
  ELSE IF "gallery" \in existing THEN "gallery"
  ELSE ""

\* lines 52-71: '' stands for the early return.
SelectTarget(existing) ==
  IF "gallery" \in existing THEN "gallery"
  ELSE IF "demo_data" \in existing THEN "demo_data"
  ELSE ""

\* Every third file of a folder is a .png, the others are .jpg.
ExtOf(id) == IF id % 3 = 0 THEN "png" ELSE "jpg"

\* glob(os.path.join(folder, "*.<ext>")): the matching files, in the order
\* the directory lists them, which nothing fixes.
Glob(folder, ext, order) ==
  LET asc == SelectSeq([i \in 1..nImgs |-> <<folder, i>>],
                       LAMBDA p: ExtOf(p[2]) = ext)
  IN IF folder \notin folders THEN <<>>
     ELSE IF order = "asc" THEN asc ELSE Reverse(asc)

\* sorted(...): the paths of one folder in ascending order of their names.
Sorted(paths) ==
  LET ids == {paths[k][2] : k \in DOMAIN paths}
      top == IF ids = {} THEN 0 ELSE CHOOSE m \in ids : \A x \in ids : x <= m
  IN SelectSeq([i \in 1..top |-> <<paths[1][1], i>>], LAMBDA p: p[2] \in ids)

\* range(start, stop, step) for step > 0.
RECURSIVE PyRange(_, _, _)
PyRange(start, stop, step) ==
  IF start >= stop THEN <<>>
  ELSE <<start>> \o PyRange(start + step, stop, step)

\* seq[lo:hi] with 0 <= lo: indices from 0, hi excluded and clamped.
Slice(seq, lo, hi) == SubSeq(seq, lo + 1, Min(hi, Len(seq)))

\* Chunks started one position late: each slice misses the path before it.
ChunksOfSkipping(paths, size) ==
  LET starts == PyRange(1, Len(paths), size)
  IN [k \in 1..Len(starts) |-> Slice(paths, starts[k], starts[k] + size)]

\* line 88: [all_paths[i:i + batch_size] for i in range(0, total_imgs, batch_size)]
ChunksOf(paths, size) ==
  LET starts == PyRange(0, Len(paths), size)
  IN [k \in 1..Len(starts) |-> Slice(paths, starts[k], starts[k] + size)]

\* np.concatenate(all_features, axis=0): the rows of the arrays, in order.
NpConcatenate(arrays) == ConcatRange(arrays, 1, Len(arrays))

NoFile == [run |-> 0, data |-> <<>>]

\* np.save in append mode: the rows of the file before are kept.
NpSaveAppending(old, array) == [run |-> run, data |-> old.data \o array]

\* np.save(name, array): the file holds the array; what it held is gone.
NpSave(old, array) == [run |-> run, data |-> array]

\* The loop gives up as soon as the next result is not ready yet.
HasNextPolling(collected, nChunks) ==
  collected < nChunks /\ (collected + 1) \in DOMAIN results

\* line 100: the iterator of pool.imap yields one result per chunk, and
\* blocks until the next one is there.
HasNext(collected, nChunks) == collected < nChunks

\* pool.imap_unordered: whichever result is ready.
CollectableUnordered(finished, next) == finished

\* line 100: pool.imap yields the results in the order the chunks were
\* submitted; a result that is ready early waits for the ones before it.
Collectable(finished, next) == IF next \in finished THEN {next} ELSE {}

Without(f, c) == [x \in (DOMAIN f) \ {c} |-> f[x]]

\* ------------------------------------------------------------------ state
ProgramInit ==
  /\ run = 1
  /\ pc = "start"
  /\ outcome = "none"
  /\ target_folder = ""
  /\ all_paths = <<>>
  /\ total_imgs = 0
  /\ chunks = <<>>
  /\ nTaken = 0
  /\ running = {}
  /\ results = <<>>
  /\ nCollected = 0
  /\ all_features = <<>>
  /\ valid_paths = <<>>
  /\ final_features = <<>>
  /\ final_paths = <<>>
  /\ index_features = NoFile
  /\ index_paths = NoFile
  /\ completionOrder = <<>>
  /\ collectOrder = <<>>
  /\ startFeatures = NoFile
  /\ startPaths = NoFile
  /\ prevEnd = "none"
  /\ prevOutcome = "none"
  /\ sameInputs = FALSE

Init ==
  /\ folders \in SUBSET Folders
  /\ weight \in WeightStates
  /\ nImgs \in ImgCounts
  /\ patId \in 1..Len(Patterns)
  /\ ProgramInit

\* lines 52-71
SelectFolder ==
  /\ pc = "start"
  /\ target_folder' = SelectTarget(folders)
  /\ IF target_folder' = ""
       THEN pc' = "done" /\ outcome' = "no_source"
       ELSE pc' = "scan" /\ UNCHANGED outcome
  /\ UNCHANGED <<envVars, run, all_paths, total_imgs, chunks, nCollected,
                 all_features, valid_paths, final_features, final_paths,
                 poolVars, fileVars, histVars>>

\* lines 74-98: scan, count, the early return on no image, the chunks, the
\* two empty lists and the pool.
ScanImages ==
  /\ pc = "scan"
  /\ \E order \in GlobOrders :
       all_paths' = Sorted(Glob(target_folder, "jpg", order)
                           \o Glob(target_folder, "png", order))
  /\ total_imgs' = Len(all_paths')
  /\ IF total_imgs' = 0
       THEN pc' = "done" /\ outcome' = "no_images" /\ UNCHANGED chunks
       ELSE /\ chunks' = ChunksOf(all_paths', batch_size)
            /\ pc' = "pool"
            /\ UNCHANGED outcome
  /\ all_features' = <<>>
  /\ valid_paths' = <<>>
  /\ UNCHANGED <<envVars, run, target_folder, nCollected, final_features,
                 final_paths, poolVars, fileVars, histVars>>

\* A free worker of the pool takes the next chunk of the task queue.
WorkerTake ==
  /\ pc = "pool"
  /\ nTaken < Len(chunks)
  /\ Cardinality(running) < num_processes
  /\ nTaken' = nTaken + 1
  /\ running' = running \cup {nTaken + 1}
  /\ UNCHANGED <<envVars, run, mainVars, results, fileVars, histVars>>

\* A worker returns from process_batch(chunk).
WorkerFinish(c) ==
  /\ pc = "pool"
  /\ c \in running
  /\ running' = running \ {c}
  /\ results' = (c :> process_batch(chunks[c])) @@ results
  /\ completionOrder' = Append(completionOrder, c)
  /\ UNCHANGED <<envVars, run, mainVars, nTaken, fileVars, collectOrder,
                 startFeatures, startPaths, prevEnd, prevOutcome, sameInputs>>

\* lines 100-103: one turn of the for loop. A call that raised in the worker
\* raises again here, and only KeyboardInterrupt is caught above.
CollectResult ==
  /\ pc = "pool"
  /\ HasNext(nCollected, Len(chunks))
  /\ \E c \in Collectable(DOMAIN results, nCollected + 1) :
       /\ results' = Without(results, c)
       /\ collectOrder' = Append(collectOrder, c)
       /\ IF results[c].raised
            THEN /\ pc' = "crashed"
                 /\ UNCHANGED <<nCollected, all_features, valid_paths>>
            ELSE /\ nCollected' = nCollected + 1
                 /\ IF Len(results[c].features) > 0
                      THEN /\ all_features' = all_features \o results[c].features
                           /\ valid_paths' = valid_paths \o results[c].paths
                      ELSE UNCHANGED <<all_features, valid_paths>>
                 /\ UNCHANGED pc
  /\ UNCHANGED <<envVars, run, outcome, target_folder, all_paths, total_imgs,
                 chunks, final_features, final_paths, nTaken, running,
                 fileVars, completionOrder, startFeatures, startPaths,
                 prevEnd, prevOutcome, sameInputs>>

\* lines 106-112, or 121-122 when nothing was collected.
SaveFeatures ==
  /\ pc = "pool"
  /\ ~HasNext(nCollected, Len(chunks))
  /\ IF Len(all_features) > 0
       THEN /\ final_features' = NpConcatenate(all_features)
            /\ final_paths' = valid_paths
            /\ index_features' = NpSave(index_features, final_features')
            /\ pc' = "save_paths"
            /\ UNCHANGED outcome
       ELSE /\ pc' = "done"
            /\ outcome' = "fail_empty"
            /\ UNCHANGED <<final_features, final_paths, index_features>>
  /\ UNCHANGED <<envVars, run, target_folder, all_paths, total_imgs, chunks,
                 nCollected, all_features, valid_paths, poolVars, index_paths,
                 histVars>>

\* lines 113-120
SavePaths ==
  /\ pc = "save_paths"
  /\ index_paths' = NpSave(index_paths, final_paths)
  /\ pc' = "done"
  /\ outcome' = "success"
  /\ UNCHANGED <<envVars, run, target_folder, all_paths, total_imgs, chunks,
                 nCollected, all_features, valid_paths, final_features,
                 final_paths, poolVars, index_features, histVars>>

\* lines 127-130: Ctrl-C while build_index_fast runs; the handler prints and
\* the process ends.
KeyboardInterrupt ==
  /\ pc \in {"start", "scan", "pool", "save_paths"}
  /\ pc' = "interrupted"
  /\ UNCHANGED <<envVars, run, outcome, target_folder, all_paths, total_imgs,
                 chunks, nCollected, all_features, valid_paths, final_features,
                 final_paths, poolVars, fileVars, histVars>>

\* The script is started again on the same folders; the weight file may have
\* been put in place, damaged or removed meanwhile. The two index files are
\* what the run before left.
Rerun ==
  /\ pc \in {"done", "interrupted", "crashed"}
  /\ run < MaxRuns
  /\ run' = run + 1
  /\ pc' = "start"
  /\ outcome' = "none"
  /\ target_folder' = ""
  /\ all_paths' = <<>>
  /\ total_imgs' = 0
  /\ chunks' = <<>>
  /\ nTaken' = 0
  /\ running' = {}
  /\ results' = <<>>
  /\ nCollected' = 0
  /\ all_features' = <<>>
  /\ valid_paths' = <<>>
  /\ final_features' = <<>>
  /\ final_paths' = <<>>
  /\ completionOrder' = <<>>
  /\ collectOrder' = <<>>
  /\ startFeatures' = index_features
  /\ startPaths' = index_paths
  /\ prevEnd' = pc
  /\ prevOutcome' = outcome
  /\ weight' \in WeightStates
  /\ sameInputs' = (weight' = weight)
  /\ UNCHANGED <<folders, nImgs, patId, fileVars>>

Next ==
  \/ SelectFolder
  \/ ScanImages
  \/ WorkerTake
  \/ \E c \in running : WorkerFinish(c)
  \/ CollectResult
  \/ SaveFeatures
  \/ SavePaths
  \/ KeyboardInterrupt
  \/ Rerun

Spec == Init /\ [][Next]_vars

\* Every length of the discovered list up to MaxLen, one run, no interrupt.
InitChunk ==
  /\ folders \in SUBSET Folders
  /\ weight = "ok"
  /\ nImgs \in 0..MaxLen
  /\ patId = 1
  /\ ProgramInit

NextChunk ==
  \/ SelectFolder
  \/ ScanImages

SpecChunk == InitChunk /\ [][NextChunk]_vars

\* ----------------------------------------------------------- properties
Range(seq) == {seq[k] : k \in DOMAIN seq}

\* The image gets through the size check, preprocessing and inference.
Passes(path) ==
  LET kind == KindOf(path)
  IN /\ ~StatFails(kind)
     /\ FileSize(kind) >= MinFileSize
     /\ ~DecodeFails(kind)
     /\ ~InferFails(kind)

\* One of the three calls raises on the image.
Raises(path) ==
  LET kind == KindOf(path)
  IN StatFails(kind) \/ DecodeFails(kind) \/ InferFails(kind)

\* The file has a size, and it is below 1024 bytes.
IsSmallFile(path) ==
  ~StatFails(KindOf(path)) /\ FileSize(KindOf(path)) < MinFileSize

IsAscending(paths) ==
  \A k \in 1..(Len(paths) - 1) : paths[k][2] < paths[k + 1][2]

RunEnded == pc \in {"done", "interrupted", "crashed"}
Succeeded == pc = "done" /\ outcome = "success"

\* C1: when a run has written an index, the feature file has as many rows as
\* the path file has paths, row i is the embedding of path i, no path occurs
\* twice, and the paths are exactly the discovered images that pass the size
\* check, preprocessing and inference.
C1_Aligned ==
  Succeeded =>
    /\ Len(index_features.data) = Len(index_paths.data)
    /\ \A i \in DOMAIN index_paths.data :
         index_features.data[i] = Embedding(index_paths.data[i])
    /\ Cardinality(Range(index_paths.data)) = Len(index_paths.data)
    /\ Range(index_paths.data) = {p \in Range(all_paths) : Passes(p)}
    /\ Len(index_paths.data)
         = Cardinality({k \in 1..total_imgs : Passes(all_paths[k])})

C1_Witness ==
  /\ Succeeded
  /\ Len(chunks) > 1
  /\ Len(index_paths.data) > 1
  /\ index_paths.data[Len(index_paths.data)] \notin Range(chunks[1])
  /\ Len(index_paths.data) < total_imgs
  /\ \E k \in 1..total_imgs : InferFails(KindOf(all_paths[k]))

\* C2: a discovered image whose size is below 1024 bytes is in no list that
\* process_batch returned, and in no path array in memory or on disk.
C2_NoSmallFile ==
  /\ \A c \in DOMAIN results :
       \A k \in DOMAIN results[c].paths : ~IsSmallFile(results[c].paths[k])
  /\ \A k \in DOMAIN valid_paths : ~IsSmallFile(valid_paths[k])
  /\ \A k \in DOMAIN final_paths : ~IsSmallFile(final_paths[k])
  /\ \A k \in DOMAIN index_paths.data : ~IsSmallFile(index_paths.data[k])

C2_Witness ==
  /\ Succeeded
  /\ \E k \in 1..total_imgs : FileSize(KindOf(all_paths[k])) = MinFileSize - 1
  /\ \E k \in 1..total_imgs : FileSize(KindOf(all_paths[k])) = MinFileSize
  /\ Len(index_paths.data) > 0

\* C3 as stated: the loop receives the chunks in the order they complete.
C3_CompletionOrder ==
  \A k \in DOMAIN collectOrder : collectOrder[k] = completionOrder[k]

\* C3 amended: the loop receives the chunks in the order they were submitted,
\* whatever the order they complete in, so the accumulated paths and the
\* saved path array are in the sorted discovery order.
C3_SubmissionOrder ==
  /\ \A k \in DOMAIN collectOrder : collectOrder[k] = k
  /\ IsAscending(valid_paths)
  /\ Succeeded => IsAscending(index_paths.data)

C3_Witness ==
  /\ Succeeded
  /\ Len(collectOrder) > 2
  /\ completionOrder[1] # 1
  /\ \E k \in DOMAIN index_paths.data : index_paths.data[k] \in Range(chunks[1])
  /\ \E k \in DOMAIN index_paths.data : index_paths.data[k] \in Range(chunks[2])

\* C4: for n >= 1 discovered paths the chunks are contiguous slices of the
\* sorted list, in order and without overlap, whose concatenation is the
\* list; every chunk but the last has batch_size paths, none is empty, and
\* there are ceil(n / batch_size) of them (250 paths: 100, 100, 50).
C4_Chunks ==
  (pc = "pool" /\ total_imgs >= 1) =>
    /\ IsAscending(all_paths)
    /\ ConcatRange(chunks, 1, Len(chunks)) = all_paths
    /\ Len(chunks) * batch_size >= total_imgs
    /\ (Len(chunks) - 1) * batch_size < total_imgs
    /\ \A c \in DOMAIN chunks :
         /\ Len(chunks[c]) >= 1
         /\ c < Len(chunks) => Len(chunks[c]) = batch_size
         /\ Len(chunks[c]) <= batch_size
         /\ \A j \in DOMAIN chunks[c] :
              chunks[c][j] = all_paths[(c - 1) * batch_size + j]
    /\ total_imgs = 250 =>
         [c \in DOMAIN chunks |-> Len(chunks[c])] = <<100, 100, 50>>

C4_Witness ==
  /\ pc = "pool"
  /\ total_imgs = 250
  /\ Len(chunks) = 3
  /\ Len(chunks[3]) = 50

\* C5: 'gallery' is chosen whenever it exists, 'demo_data' only when
\* 'gallery' does not; when neither exists the run ends before any chunk is
\* dispatched, with no exception, and the index files are as they were.
C5_FolderPriority ==
  LET chosen == pc \in {"scan", "pool", "save_paths", "done", "crashed"}
  IN /\ "gallery" \in folders =>
          /\ target_folder \in {"", "gallery"}
          /\ chosen => target_folder = "gallery"
     /\ target_folder = "demo_data" =>
          "demo_data" \in folders /\ "gallery" \notin folders
     /\ ("gallery" \notin folders /\ "demo_data" \in folders /\ chosen) =>
          target_folder = "demo_data"
     /\ \A k \in DOMAIN all_paths : all_paths[k][1] = target_folder
     /\ folders = {} =>
          /\ pc \in {"start", "done", "interrupted"}
          /\ pc = "done" => outcome = "no_source"
          /\ chunks = <<>> /\ nTaken = 0 /\ running = {}
          /\ index_features = startFeatures
          /\ index_paths = startPaths

C5_Witness ==
  /\ folders = Folders
  /\ Succeeded
  /\ target_folder = "gallery"
  /\ index_paths.data # <<>>

\* C6: with the weight file absent, every process_batch call returns two
\* empty lists, nothing is accumulated, a run that found images ends with the
\* total failure message, and neither index file is written.
C6_WeightAbsent ==
  weight = "absent" =>
    /\ \A c \in DOMAIN results :
         /\ ~results[c].raised
         /\ results[c].features = <<>>
         /\ results[c].paths = <<>>
    /\ all_features = <<>>
    /\ valid_paths = <<>>
    /\ pc \notin {"save_paths", "crashed"}
    /\ pc = "done" => outcome # "success"
    /\ (pc = "done" /\ total_imgs > 0) => outcome = "fail_empty"
    /\ index_features = startFeatures
    /\ index_paths = startPaths

C6_Witness ==
  /\ weight = "absent"
  /\ pc = "done"
  /\ outcome = "fail_empty"
  /\ Len(collectOrder) = 3
  /\ \E k \in 1..total_imgs : Passes(all_paths[k])

\* C7: once a run has ended, normally or by an interruption, the two index
\* files are from the same run, or both as they were.
C7_FilesTogether ==
  RunEnded => index_features.run = index_paths.run

\* C8 as stated: after a run that terminates normally, nothing of an earlier
\* run remains in the two index files.
C8_NothingOldRemains ==
  pc = "done" =>
    /\ index_features.run \notin 1..(run - 1)
    /\ index_paths.run \notin 1..(run - 1)

\* C8 amended: after a run that terminates normally having indexed at least
\* one image, the two files hold the results of that run and nothing else;
\* a run that terminates normally having indexed none leaves both files as
\* they were.
C8_ReplacedOnSuccess ==
  pc = "done" =>
    IF outcome = "success"
      THEN /\ index_features = [run |-> run, data |-> final_features]
           /\ index_paths = [run |-> run, data |-> final_paths]
           /\ final_paths = SelectSeq(all_paths, Passes)
      ELSE /\ index_features = startFeatures
           /\ index_paths = startPaths

C8_Witness ==
  /\ Succeeded
  /\ run > 1
  /\ startFeatures.data # <<>>
  /\ startFeatures.run # startPaths.run

\* C9: two runs in a row on the same inputs that both terminate normally end
\* the same way, and when they write an index the two indexes hold the same
\* (feature row, path) pairs, whatever the order the chunks complete in.
PairSet(features, paths) ==
  {<<features[i], paths[i]>> : i \in DOMAIN paths}

C9_SamePairs ==
  (run > 1 /\ sameInputs /\ prevEnd = "done" /\ pc = "done") =>
    /\ outcome = prevOutcome
    /\ outcome = "success" =>
         /\ Len(index_features.data) = Len(index_paths.data)
         /\ Len(startFeatures.data) = Len(startPaths.data)
         /\ PairSet(index_features.data, index_paths.data)
              = PairSet(startFeatures.data, startPaths.data)

C9_Witness ==
  /\ run > 1 /\ sameInputs /\ prevEnd = "done"
  /\ Succeeded
  /\ Len(completionOrder) = 3
  /\ completionOrder # <<1, 2, 3>>
  /\ Len(index_paths.data) > batch_size

\* C10: with a loadable weight file, an image on which a call raises is
\* skipped, the paths after it in the chunk are still processed in order,
\* process_batch returns normally, and the run does not end on an exception.
C10_Absorbed ==
  weight = "ok" =>
    /\ pc # "crashed"
    /\ \A c \in DOMAIN results :
         /\ ~results[c].raised
         /\ results[c].paths = SelectSeq(chunks[c], Passes)
         /\ Len(results[c].features) = Len(results[c].paths)

C10_Witness ==
  \E c \in DOMAIN results :
    /\ results[c].paths # <<>>
    /\ \E j \in DOMAIN chunks[c] :
         /\ Raises(chunks[c][j])
         /\ results[c].paths[Len(results[c].paths)][2] > chunks[c][j][2]
    /\ \E j \in DOMAIN chunks[c] : StatFails(KindOf(chunks[c][j]))
    /\ \E j \in DOMAIN chunks[c] : DecodeFails(KindOf(chunks[c][j]))
    /\ \E j \in DOMAIN chunks[c] : InferFails(KindOf(chunks[c][j]))

====
